---- MODULE Spec2Model ----
(***************************************************************************)
(* Model of server/app.py: the text-extraction cascade, the frequency      *)
(* based extractive summarizer and the /api/summarize route.               *)
(*                                                                         *)
(* A text is a sequence of one-character strings, so that trimming,        *)
(* sentence segmentation, tokenisation, normalisation and joining are      *)
(* computed character by character as the code computes them.              *)
(***************************************************************************)
EXTENDS Integers, Sequences, FiniteSets

VARIABLES
    pc,               \* position of the request / call being processed
    request,          \* the payload of the request being handled
    file_bytes,       \* summarize_route: file_bytes local
    mime_type,        \* summarize_route: mime_type local
    prompt_text,      \* summarize_route: prompt_text local
    extracted_text,   \* summarize_route: extracted_text local
    calls,            \* extraction strategies attempted, in order
    response,         \* the HTTP response of the route
    text,             \* extractive_summarize: text argument
    max_sentences,    \* extractive_summarize: max_sentences argument
    branch,           \* extractive_summarize: the return statement taken
    sentences,        \* extractive_summarize: sentences local
    scores,           \* extractive_summarize: scores local
    top_idxs,         \* extractive_summarize: top_idxs local
    top_idxs_sorted,  \* extractive_summarize: indices of the joined sentences
    summary           \* extractive_summarize: returned string

vars == <<pc, request, file_bytes, mime_type, prompt_text, extracted_text, calls, response,
          text, max_sentences, branch, sentences, scores, top_idxs,
          top_idxs_sorted, summary>>

\* ------------------------------------------------------------------ bounds

\* longest text of the summarizer specification, in sentences
MaxSents == 3
\* largest max_sentences argument of the summarizer specification
MaxK == 2

\* ------------------------------------------------------------- characters

UpperChars == <<"A", "B", "C", "D", "E", "F", "G", "H", "I", "J", "K", "L", "M",
                "N", "O", "P", "Q", "R", "S", "T", "U", "V", "W", "X", "Y", "Z">>
LowerChars == <<"a", "b", "c", "d", "e", "f", "g", "h", "i", "j", "k", "l", "m",
                "n", "o", "p", "q", "r", "s", "t", "u", "v", "w", "x", "y", "z">>
DigitChars == {"0", "1", "2", "3", "4", "5", "6", "7", "8", "9"}

Range(s) == {s[i] : i \in 1..Len(s)}

Min(S) == CHOOSE x \in S : \A y \in S : x <= y

\* str.isspace for the characters of the model
IsSpace(c) == c \in {" ", "\n", "\t"}

\* [a-zA-Z0-9]
AlnumChars == Range(UpperChars) \cup Range(LowerChars) \cup DigitChars
IsAlnum(c) == c \in AlnumChars

\* str.lower on one character
LowerOf == [c \in Range(UpperChars) |->
               LowerChars[CHOOSE i \in 1..26 : UpperChars[i] = c]]
LowerChar(c) == IF c \in DOMAIN LowerOf THEN LowerOf[c] ELSE c

\* the first position from i on that holds no whitespace (Len(t) + 1: none)
RECURSIVE NextNonSpace(_, _)
NextNonSpace(t, i) ==
    IF i > Len(t) \/ ~IsSpace(t[i]) THEN i ELSE NextNonSpace(t, i + 1)

\* the last position up to i that holds no whitespace (0: none)
RECURSIVE PrevNonSpace(_, _)
PrevNonSpace(t, i) ==
    IF i < 1 \/ ~IsSpace(t[i]) THEN i ELSE PrevNonSpace(t, i - 1)

\* str.strip
Strip(t) == SubSeq(t, NextNonSpace(t, 1), PrevNonSpace(t, Len(t)))

\* sep.join(parts)
RECURSIVE Join(_, _)
Join(sep, parts) ==
    IF parts = <<>> THEN <<>>
    ELSE IF Len(parts) = 1 THEN parts[1]
    ELSE parts[1] \o sep \o Join(sep, Tail(parts))

\* the separator "\n\n"
BlankLine == <<"\n", "\n">>

\* ------------------------------------------------------------ tokenizers

\* Punkt's sentence-ending characters
SentEndChars == {".", "!", "?"}

\* positions where nltk's sent_tokenize ends a sentence inside the text: a
\* sentence-ending character followed by whitespace and a further token
\* (the words of the model's texts are no abbreviations, initials or numbers
\* before a period, which Punkt treats apart)
IsSentBreak(t, i) ==
    /\ t[i] \in SentEndChars
    /\ i < Len(t)
    /\ IsSpace(t[i + 1])
    /\ NextNonSpace(t, i + 1) <= Len(t)

\* nltk.tokenize.sent_tokenize: the first sentence starts at the start of the
\* text, each later one at the first token after a break; the last one ends
\* where the right-trimmed text ends
RECURSIVE SentSlices(_, _)
SentSlices(t, from) ==
    LET breaks == {i \in from..Len(t) : IsSentBreak(t, i)}
    IN  IF breaks = {}
        THEN <<SubSeq(t, from, PrevNonSpace(t, Len(t)))>>
        ELSE <<SubSeq(t, from, Min(breaks))>>
             \o SentSlices(t, NextNonSpace(t, Min(breaks) + 1))

sent_tokenize(t) ==
    IF NextNonSpace(t, 1) > Len(t) THEN <<>> ELSE SentSlices(t, 1)

\* the tokens collected so far, with the pending one closed
Flush(cur, acc) == IF cur = <<>> THEN acc ELSE Append(acc, cur)

\* nltk's Treebank word tokenizer on one sentence of letters, digits,
\* whitespace and . ! ?: split on whitespace, "!" and "?" are tokens of their
\* own, and so is the sentence-final period
RECURSIVE TreebankScan(_, _, _, _)
TreebankScan(s, i, cur, acc) ==
    IF i > Len(s) THEN Flush(cur, acc)
    ELSE LET c == s[i]
             final == /\ c = "."
                      /\ i > 1
                      /\ s[i - 1] # "."
                      /\ NextNonSpace(s, i + 1) > Len(s)
         IN  IF IsSpace(c) THEN TreebankScan(s, i + 1, <<>>, Flush(cur, acc))
             ELSE IF c \in {"!", "?"} \/ final
                  THEN TreebankScan(s, i + 1, <<>>, Append(Flush(cur, acc), <<c>>))
                  ELSE TreebankScan(s, i + 1, Append(cur, c), acc)

RECURSIVE Flatten(_)
Flatten(ss) == IF ss = <<>> THEN <<>> ELSE ss[1] \o Flatten(Tail(ss))

\* nltk.tokenize.word_tokenize: the Treebank tokens of each sentence in turn
word_tokenize(t) ==
    LET sents == sent_tokenize(t)
    IN  Flatten([i \in 1..Len(sents) |-> TreebankScan(sents[i], 1, <<>>, <<>>)])

\* ------------------------------------------------------------- summarizer

\* nltk's English stopword list, as far as the words of the model's texts go
STOPWORDS == {
    <<"t", "h", "e">>, <<"i", "s">>, <<"a", "r", "e">>, <<"a", "t">>,
    <<"t", "o", "o">>, <<"i", "t">>, <<"o", "f">>, <<"a", "n", "d">>, <<"a">>,
    <<"t", "o">>, <<"i", "n">>, <<"t", "h", "i", "s">>, <<"t", "h", "a", "t">>,
    <<"b", "e">>}

\* re.sub(r'[^a-zA-Z0-9]', '', w).lower()
normalize_word(w) ==
    LET kept == SelectSeq(w, IsAlnum)
    IN  [i \in 1..Len(kept) |-> LowerChar(kept[i])]

\* build_word_freq without its stopword test
build_word_freq_KeepStop(t) ==
    LET words == word_tokenize(t)
        nws == [i \in 1..Len(words) |-> normalize_word(words[i])]
        keys == {nws[i] : i \in 1..Len(nws)} \ {<<>>}
    IN  [nw \in keys |-> Cardinality({i \in 1..Len(nws) : nws[i] = nw})]

\* the dict build_word_freq returns: normalized content word -> count
build_word_freq(t) ==
    LET words == word_tokenize(t)
        nws == [i \in 1..Len(words) |-> normalize_word(words[i])]
        keys == {nws[i] : i \in 1..Len(nws)} \ ({<<>>} \cup STOPWORDS)
    IN  [nw \in keys |-> Cardinality({i \in 1..Len(nws) : nws[i] = nw})]

\* freq.get(nw, 0)
FreqGet(freq, nw) == IF nw \in DOMAIN freq THEN freq[nw] ELSE 0

RECURSIVE SumSeq(_)
SumSeq(s) == IF s = <<>> THEN 0 ELSE s[1] + SumSeq(Tail(s))

\* SentenceScore dividing by len(words), without the + 1
SentenceScore_NoPlusOne(sent, freq) ==
    LET words == word_tokenize(sent)
        adds == [i \in 1..Len(words) |->
                    FreqGet(freq, normalize_word(words[i]))]
    IN  [num |-> SumSeq(adds), den |-> Len(words)]

\* the score of one sentence, kept as the exact quotient num / den that the
\* code rounds to a float
SentenceScore(sent, freq) ==
    LET words == word_tokenize(sent)
        adds == [i \in 1..Len(words) |->
                    LET nw == normalize_word(words[i])
                    IN  IF nw = <<>> THEN 0 ELSE FreqGet(freq, nw)]
    IN  [num |-> SumSeq(adds), den |-> Len(words) + 1]

\* the dict score_sentences returns: 0-based sentence index -> score
score_sentences(sents, freq) ==
    [idx \in 0..(Len(sents) - 1) |-> SentenceScore(sents[idx + 1], freq)]

\* comparison of two scores (denominators are positive)
ScoreLess(a, b) == a.num * b.den < b.num * a.den
ScoreEq(a, b) == a.num * b.den = b.num * a.den

\* InsertDesc without reverse=True: ascending by score
InsertAsc(lst, i, sc) ==
    LET greater == {p \in 1..Len(lst) : ScoreLess(sc[i], sc[lst[p]])}
        at == IF greater = {} THEN Len(lst) + 1 ELSE Min(greater)
    IN  SubSeq(lst, 1, at - 1) \o <<i>> \o SubSeq(lst, at, Len(lst))

\* InsertDesc of a sort that reverses equal elements: i goes before the
\* elements with an equal score
InsertDesc_Unstable(lst, i, sc) ==
    LET notGreater == {p \in 1..Len(lst) : ~ScoreLess(sc[i], sc[lst[p]])}
        at == IF notGreater = {} THEN Len(lst) + 1 ELSE Min(notGreater)
    IN  SubSeq(lst, 1, at - 1) \o <<i>> \o SubSeq(lst, at, Len(lst))

\* one step of a stable descending sort: i goes before the first element
\* with a strictly smaller score, behind every element with an equal one
InsertDesc(lst, i, sc) ==
    LET smaller == {p \in 1..Len(lst) : ScoreLess(sc[lst[p]], sc[i])}
        at == IF smaller = {} THEN Len(lst) + 1 ELSE Min(smaller)
    IN  SubSeq(lst, 1, at - 1) \o <<i>> \o SubSeq(lst, at, Len(lst))

\* sorted(scores, key=lambda i: scores[i], reverse=True): the keys of the
\* dict in insertion order 0, 1, ..., sorted stably by descending score
RECURSIVE SortedDescUpTo(_, _)
SortedDescUpTo(sc, n) ==
    IF n = 0 THEN <<>> ELSE InsertDesc(SortedDescUpTo(sc, n - 1), n - 1, sc)

SortedByScoreDesc(sc) == SortedDescUpTo(sc, Cardinality(DOMAIN sc))

\* lst[:n + 1]
Take_OffByOne(lst, n) ==
    SubSeq(lst, 1, IF n + 1 < Len(lst) THEN n + 1 ELSE Len(lst))

\* lst[:n]
Take(lst, n) == SubSeq(lst, 1, IF n < Len(lst) THEN n ELSE Len(lst))

\* top_idxs joined as ranked, without sorted(top_idxs)
SortedAsc_Skipped(lst) == lst

\* sorted(top_idxs)
RECURSIVE SortedAsc(_)
SortedAsc(lst) ==
    IF lst = <<>> THEN <<>>
    ELSE LET m == Min(Range(lst))
         IN   <<m>> \o SortedAsc(SelectSeq(lst, LAMBDA x : x # m))

\* len(text.strip()) < 50
ShortLimit == 50

\* the test without its length half
IsShort_NoLength(t) == t = <<>>

\* not text or len(text.strip()) < 50
IsShort(t) == t = <<>> \/ Len(Strip(t)) < ShortLimit

NoScores == [idx \in {} |-> 0]

\* extractive_summarize, with the locals it holds when it returns
extractive_summarize(t, k) ==
    IF IsShort(t)
    THEN [branch |-> "short", sentences |-> <<>>, scores |-> NoScores,
          top_idxs |-> <<>>, top_idxs_sorted |-> <<>>, summary |-> Strip(t)]
    ELSE
    LET sents == sent_tokenize(t)
    IN  IF Len(sents) <= k
        THEN [branch |-> "few", sentences |-> sents, scores |-> NoScores,
              top_idxs |-> <<>>,
              top_idxs_sorted |-> [i \in 1..Len(sents) |-> i - 1],
              summary |-> Join(BlankLine, sents)]
        ELSE
        LET freq == build_word_freq(t)
        IN  IF DOMAIN freq = {}
            THEN [branch |-> "fallback", sentences |-> sents,
                  scores |-> NoScores, top_idxs |-> <<>>,
                  top_idxs_sorted |-> [i \in 1..k |-> i - 1],
                  summary |-> Join(BlankLine, Take(sents, k))]
            ELSE
            LET sc == score_sentences(sents, freq)
                top == Take(SortedByScoreDesc(sc), k)
                srt == SortedAsc(top)
                selected == [i \in 1..Len(srt) |-> sents[srt[i] + 1]]
            IN  [branch |-> "scored", sentences |-> sents, scores |-> sc,
                 top_idxs |-> top, top_idxs_sorted |-> srt,
                 summary |-> Join(BlankLine, selected)]

\* ------------------------------------------------------------- extraction

\* A document is the decoded bytes of an upload, described by what the two
\* libraries make of them: size is len(file_bytes); pdf is PyPDF2's view
\* (PdfReader raising, or the pages, each with extract_text raising or giving
\* a text); img is PIL's and tesseract's view (the exception raised, if any,
\* and the text image_to_string returns).  None and the empty string, which
\* the code treats alike (`or`, `not`), are both <<>>.

\* PyPDF2.PdfReader with page.extract_text() per page, "\n".join, strip
extract_text_from_pdf_bytes(doc) ==
    IF doc.pdf.raises THEN <<>>
    ELSE LET pages == doc.pdf.pages
             txts == [i \in 1..Len(pages) |->
                         IF pages[i].raises THEN <<>> ELSE pages[i].text]
             texts == SelectSeq(txts, LAMBDA x : x # <<>>)
         IN  Strip(Join(<<"\n">>, texts))

\* PIL.Image.open, pytesseract.image_to_string, strip
extract_text_from_image_bytes(doc) ==
    IF doc.img.error # "none" THEN <<>> ELSE Strip(doc.img.text)

M_pdf == <<"a", "p", "p", "l", "i", "c", "a", "t", "i", "o", "n", "/", "p", "d", "f">>
M_xpdf == <<"a", "p", "p", "l", "i", "c", "a", "t", "i", "o", "n", "/", "x", "-", "p", "d", "f">>
M_png == <<"i", "m", "a", "g", "e", "/", "p", "n", "g">>
ImagePrefix == <<"i", "m", "a", "g", "e", "/">>
Unknown == <<"u", "n", "k", "n", "o", "w", "n">>

\* mime_type in ("application/pdf", "application/x-pdf")
PdfTypes == {M_pdf, M_xpdf}

\* str.startswith
StartsWith(s, prefix) ==
    Len(s) >= Len(prefix) /\ SubSeq(s, 1, Len(prefix)) = prefix

\* extract_text as a strict dispatcher: a PDF type returns what the PDF
\* strategy gives
extract_text_Strict(mime, doc) ==
    LET pdf == extract_text_from_pdf_bytes(doc)
        img == extract_text_from_image_bytes(doc)
    IN  IF mime \in PdfTypes
        THEN [text |-> pdf, calls |-> <<"pdf">>]
        ELSE IF StartsWith(mime, ImagePrefix)
             THEN [text |-> img, calls |-> <<"image">>]
             ELSE IF pdf # <<>>
                  THEN [text |-> pdf, calls |-> <<"pdf">>]
                  ELSE [text |-> img, calls |-> <<"pdf", "image">>]

\* extract_text: the text returned, and the strategies called on the way
extract_text(mime, doc) ==
    LET pdf == extract_text_from_pdf_bytes(doc)
        img == extract_text_from_image_bytes(doc)
        first == IF mime \in PdfTypes THEN <<"pdf">> ELSE <<>>
    IN  IF mime \in PdfTypes /\ pdf # <<>>
        THEN [text |-> pdf, calls |-> <<"pdf">>]
        ELSE IF StartsWith(mime, ImagePrefix)
             THEN [text |-> img, calls |-> first \o <<"image">>]
             ELSE IF pdf # <<>>
                  THEN [text |-> pdf, calls |-> first \o <<"pdf">>]
                  ELSE [text |-> img, calls |-> first \o <<"pdf", "image">>]

\* ------------------------------------------------------------------ texts

S_cats == <<"C", "a", "t", "s", " ", "a", "r", "e", " ", "m", "a", "m", "m", "a", "l", "s", ".">>
S_dogs == <<"D", "o", "g", "s", " ", "a", "r", "e", " ", "m", "a", "m", "m", "a", "l", "s", " ", "t", "o", "o", ".">>
S_sky == <<"T", "h", "e", " ", "s", "k", "y", " ", "i", "s", " ", "b", "l", "u", "e", ".">>
S_water == <<"W", "a", "t", "e", "r", " ", "b", "o", "i", "l", "s", " ", "a", "t", " ", "1", "0", "0", " ", "d", "e", "g", "r", "e", "e", "s", ".">>
S_stop == <<"I", "t", " ", "i", "s", " ", "a", "t", " ", "t", "h", "e", " ", "t", "o", "o", "!">>
S_also == <<"I", "s", " ", "t", "h", "a", "t", " ", "i", "n", " ", "t", "h", "i", "s", "?">>
P_ask == <<"S", "u", "m", "m", "a", "r", "i", "z", "e", " ", "t", "h", "e", " ", "m", "a", "m", "m", "a", "l", "s", ".">>
P_two == <<"B", "e", " ", "b", "r", "i", "e", "f", "!", " ", "L", "i", "s", "t", " ", "m", "a", "m", "m", "a", "l", "s", ".">>

\* the sentences the texts of the summarizer specification are made of
SentencePool == <<S_cats, S_dogs, S_sky, S_water, S_stop, S_also>>

\* whitespace between two sentences, and around the text
Layouts == {[sep |-> <<" ">>, margin |-> <<>>],
            [sep |-> <<" ", " ", "\n">>, margin |-> <<" ">>]}

\* every sequence over 1..Len(SentencePool) of length at most n
SeqsUpTo(n) == UNION {[1..m -> 1..Len(SentencePool)] : m \in 0..n}

\* "Cats are mammals. Dogs are mammals too. The sky is blue. Water boils at
\* 100 degrees."
ScenarioText == Join(<<" ">>, <<S_cats, S_dogs, S_sky, S_water>>)

\* the texts of the summarizer specification: every text of at most MaxSents
\* sentences of the pool in either layout, and the scenario text
SumTexts ==
    {l.margin \o Join(l.sep, [i \in 1..Len(ix) |-> SentencePool[ix[i]]])
              \o l.margin :
        ix \in SeqsUpTo(MaxSents), l \in Layouts}
    \cup {ScenarioText}

\* -------------------------------------------------------------- documents

Page(t) == [raises |-> FALSE, text |-> t]
FailingPage == [raises |-> TRUE, text |-> <<>>]
PdfOf(pages) == [raises |-> FALSE, pages |-> pages]
NoPdf == [raises |-> TRUE, pages |-> <<>>]
OcrOf(t) == [error |-> "none", text |-> t]
NoImage == [error |-> "UnidentifiedImageError", text |-> <<>>]
OcrFails == [error |-> "Exception", text |-> <<>>]

\* file_bytes = None, or no bytes at all
NoBytes == [size |-> 0, pdf |-> NoPdf, img |-> NoImage]

\* a three-page PDF with a text layer whose second page cannot be read
D_pdf == [size |-> 3,
          pdf |-> PdfOf(<<Page(S_cats \o <<" ">> \o S_dogs \o <<"\n">>),
                          FailingPage,
                          Page(S_sky \o <<" ">> \o S_water \o <<" ">> \o S_stop)>>),
          img |-> NoImage]
\* a PDF whose text is stopwords only
D_stop == [size |-> 2,
           pdf |-> PdfOf(<<Page(S_stop \o <<" ">> \o S_stop \o <<" ">> \o S_stop),
                           Page(<<>>),
                           Page(S_stop \o <<" ">> \o S_stop)>>),
           img |-> NoImage]
\* an image of one printed line, which is no PDF
D_img == [size |-> 1, pdf |-> NoPdf, img |-> OcrOf(S_cats \o <<"\n">>)]
\* a scanned document: bytes in which PyPDF2 finds a page without text
\* layer and from which the OCR strategy reads three lines
D_scan == [size |-> 2,
           pdf |-> PdfOf(<<Page(<<>>)>>),
           img |-> OcrOf(<<" ">> \o S_sky \o <<" ">> \o S_water \o <<"\n">>
                         \o S_cats \o <<"\n">>)]
\* a blank image: OCR gives whitespace only
D_blank == [size |-> 1, pdf |-> NoPdf, img |-> OcrOf(<<" ", "\n">>)]
\* bytes neither library can read; the OCR engine fails
D_garbage == [size |-> 1, pdf |-> NoPdf, img |-> OcrFails]

Docs == {D_pdf, D_stop, D_img, D_scan, D_blank, D_garbage}

MimeTypes == {M_pdf, M_xpdf, M_png, <<>>}

Prompts == {<<>>, P_ask, P_two}

\* --------------------------------------------------------------- requests

\* inlineData.data: a base64 string, described by what b64decode makes of it
DataValues ==
    {[b64 |-> "empty", bytes |-> NoBytes], [b64 |-> "invalid", bytes |-> NoBytes]}
    \cup {[b64 |-> "valid", bytes |-> d] : d \in Docs}

\* the parts a request is made of
Parts ==
    {[kind |-> "inlineData", mimeType |-> m, data |-> d, text |-> <<>>] :
        m \in MimeTypes, d \in DataValues}
    \cup {[kind |-> "text", mimeType |-> <<>>, data |-> [b64 |-> "empty", bytes |-> NoBytes], text |-> p] :
        p \in Prompts}
    \cup {[kind |-> "other", mimeType |-> <<>>, data |-> [b64 |-> "empty", bytes |-> NoBytes], text |-> <<>>]}

\* most parts of a request
MaxParts == 2

PartSeqs == UNION {[1..n -> Parts] : n \in 0..MaxParts}

\* the request bodies: not JSON, JSON without a contents list, or contents
\* holding one entry with some parts; mimeType and text are strings or absent
Requests ==
    {[json |-> FALSE, contents |-> <<>>], [json |-> TRUE, contents |-> <<>>]}
    \cup {[json |-> TRUE, contents |-> <<[parts |-> ps]>>] : ps \in PartSeqs}

\* ------------------------------------------------------------------ route

\* the locals of summarize_route before its loop over the parts
NoLocals == [file_bytes |-> NoBytes, mime_type |-> <<>>, prompt_text |-> <<>>,
             error |-> FALSE]

\* one iteration of the inner loop of summarize_route
ScanPart(st, part) ==
    IF part.kind = "inlineData"
    THEN IF part.data.b64 = "empty"
         THEN [st EXCEPT !.mime_type = part.mimeType]
         ELSE IF part.data.b64 = "invalid"
              THEN [st EXCEPT !.mime_type = part.mimeType, !.error = TRUE]
              ELSE [st EXCEPT !.mime_type = part.mimeType,
                              !.file_bytes = part.data.bytes]
    ELSE IF part.kind = "text" /\ st.prompt_text = <<>>
         THEN [st EXCEPT !.prompt_text = part.text]
         ELSE st

\* the loop over the parts of one entry of contents, left at the first
\* HTTPException
RECURSIVE ScanParts(_, _, _)
ScanParts(st, parts, i) ==
    IF i > Len(parts) \/ st.error THEN st
    ELSE ScanParts(ScanPart(st, parts[i]), parts, i + 1)

\* the loop over contents
RECURSIVE ScanContents(_, _, _)
ScanContents(st, contents, i) ==
    IF i > Len(contents) \/ st.error THEN st
    ELSE ScanContents(ScanParts(st, contents[i].parts, 1), contents, i + 1)

NoResponse == [status |-> 0]
BadRequest(detail) == [status |-> 400, detail |-> detail]
NoTextMessage == "No text could be extracted from the file. If it's an image, ensure it contains printed text (OCR)."

\* the max_sentences summarize_route passes
RouteMaxSentences == 4

NoSummary == [branch |-> "none", sentences |-> <<>>, scores |-> NoScores,
              top_idxs |-> <<>>, top_idxs_sorted |-> <<>>, summary |-> <<>>]

\* combined_text
CombinedText(prompt, extracted) ==
    IF prompt # <<>> THEN prompt \o BlankLine \o extracted ELSE extracted

\* SummaryResponse measuring the text that was summarized
SummaryResponse_CombinedLen(sum, extracted, combined, mime) ==
    [status |-> 200, summary |-> sum,
     source_text_length |-> Len(combined),
     source_mime_type |-> IF mime # <<>> THEN mime ELSE Unknown]

\* the body of the 200 response that carries a summary
SummaryResponse(sum, extracted, combined, mime) ==
    [status |-> 200, summary |-> sum,
     source_text_length |-> Len(extracted),
     source_mime_type |-> IF mime # <<>> THEN mime ELSE Unknown]

\* summarize_route on one request: the response, with the locals it ends with
RouteResult(req) ==
    LET st == ScanContents(NoLocals, req.contents, 1)
        none == [response |-> NoResponse, file_bytes |-> st.file_bytes,
                 mime_type |-> st.mime_type,
                 prompt_text |-> st.prompt_text, extracted_text |-> <<>>,
                 calls |-> <<>>, text |-> <<>>, sum |-> NoSummary]
    IN  IF ~req.json
        THEN [none EXCEPT !.response = BadRequest("Invalid JSON payload"),
                          !.file_bytes = NoBytes, !.mime_type = <<>>,
                          !.prompt_text = <<>>]
        ELSE IF req.contents = <<>>
        THEN [none EXCEPT !.response = BadRequest("Missing 'contents' array")]
        ELSE IF st.error
        THEN [none EXCEPT !.response = BadRequest("Invalid base64 data")]
        ELSE IF st.file_bytes.size = 0
        THEN [none EXCEPT !.response = BadRequest("No inline file data found")]
        ELSE
        LET ex == extract_text(st.mime_type, st.file_bytes)
        IN  IF ex.text = <<>>
            THEN [none EXCEPT !.calls = ex.calls,
                              !.response = [status |-> 200, summary |-> <<>>,
                                            message |-> NoTextMessage]]
            ELSE
            LET combined == CombinedText(st.prompt_text, ex.text)
                sum == extractive_summarize(combined, RouteMaxSentences)
            IN  [response |-> SummaryResponse(sum.summary, ex.text, combined,
                                              st.mime_type),
                 file_bytes |-> st.file_bytes, mime_type |-> st.mime_type,
                 prompt_text |-> st.prompt_text, extracted_text |-> ex.text, calls |-> ex.calls,
                 text |-> combined, sum |-> sum]

Init ==
    /\ pc = "idle"
    /\ request = [json |-> TRUE, contents |-> <<>>]
    /\ file_bytes = NoBytes
    /\ mime_type = <<>>
    /\ prompt_text = <<>>
    /\ extracted_text = <<>>
    /\ calls = <<>>
    /\ response = NoResponse
    /\ text = <<>>
    /\ max_sentences = RouteMaxSentences
    /\ branch = "none"
    /\ sentences = <<>>
    /\ scores = NoScores
    /\ top_idxs = <<>>
    /\ top_idxs_sorted = <<>>
    /\ summary = <<>>

\* a POST /api/summarize arrives
Receive ==
    /\ pc = "idle"
    /\ \E req \in Requests : request' = req
    /\ pc' = "received"
    /\ response' = NoResponse
    /\ UNCHANGED <<file_bytes, mime_type, prompt_text, extracted_text, calls, text,
                   max_sentences, branch, sentences, scores, top_idxs,
                   top_idxs_sorted, summary>>

\* the handler of POST /api/summarize runs to its response
summarize_route ==
    /\ pc = "received"
    /\ \E r \in {RouteResult(request)} :
        /\ response' = r.response
        /\ file_bytes' = r.file_bytes
        /\ mime_type' = r.mime_type
        /\ prompt_text' = r.prompt_text
        /\ extracted_text' = r.extracted_text
        /\ calls' = r.calls
        /\ text' = r.text
        /\ branch' = r.sum.branch
        /\ sentences' = r.sum.sentences
        /\ scores' = r.sum.scores
        /\ top_idxs' = r.sum.top_idxs
        /\ top_idxs_sorted' = r.sum.top_idxs_sorted
        /\ summary' = r.sum.summary
    /\ pc' = "responded"
    /\ UNCHANGED <<request, max_sentences>>

\* the response is sent; the values of the request are dropped with it
Respond ==
    /\ pc = "responded"
    /\ pc' = "idle"
    /\ request' = [json |-> TRUE, contents |-> <<>>]
    /\ file_bytes' = NoBytes
    /\ mime_type' = <<>>
    /\ prompt_text' = <<>>
    /\ extracted_text' = <<>>
    /\ calls' = <<>>
    /\ response' = NoResponse
    /\ text' = <<>>
    /\ branch' = "none"
    /\ sentences' = <<>>
    /\ scores' = NoScores
    /\ top_idxs' = <<>>
    /\ top_idxs_sorted' = <<>>
    /\ summary' = <<>>
    /\ UNCHANGED max_sentences

\* GET /health
health ==
    /\ pc = "idle"
    /\ response' = [status |-> 200, body |-> "ok"]
    /\ UNCHANGED <<pc, request, file_bytes, mime_type, prompt_text,
                   extracted_text, calls, text, max_sentences, branch, sentences, scores, top_idxs,
                   top_idxs_sorted, summary>>

Next == Receive \/ summarize_route \/ Respond \/ health

Spec == Init /\ [][Next]_vars

\* ----------------------------------------------------- summarizer as a call

SumInit ==
    /\ pc = "call"
    /\ text \in SumTexts
    /\ max_sentences \in 1..MaxK
    /\ request = [json |-> TRUE, contents |-> <<>>]
    /\ file_bytes = NoBytes
    /\ mime_type = <<>>
    /\ prompt_text = <<>>
    /\ extracted_text = <<>>
    /\ calls = <<>>
    /\ response = NoResponse
    /\ branch = "none"
    /\ sentences = <<>>
    /\ scores = NoScores
    /\ top_idxs = <<>>
    /\ top_idxs_sorted = <<>>
    /\ summary = <<>>

\* a call of extractive_summarize(text, max_sentences) runs to its return
Summarize ==
    /\ pc = "call"
    /\ \E r \in {extractive_summarize(text, max_sentences)} :
        /\ branch' = r.branch
        /\ sentences' = r.sentences
        /\ scores' = r.scores
        /\ top_idxs' = r.top_idxs
        /\ top_idxs_sorted' = r.top_idxs_sorted
        /\ summary' = r.summary
    /\ pc' = "returned"
    /\ UNCHANGED <<request, file_bytes, mime_type, prompt_text, extracted_text,
                   calls, response, text, max_sentences>>

SumNext == Summarize

SumSpec == SumInit /\ [][SumNext]_vars

\* ------------------------------------------------------------ properties

\* a call of extractive_summarize has returned
Returned == pc = "returned"

\* the indices of the sentences joined into the summary
Selected == Range(top_idxs_sorted)

\* the sentences of a text, each without surrounding whitespace
SentencesOf(t) ==
    LET ss == sent_tokenize(t) IN [i \in 1..Len(ss) |-> Strip(ss[i])]

\* every token of the text normalizes to a stopword or to the empty string
AllStopOrEmpty(t) ==
    LET words == word_tokenize(t)
    IN  \A i \in 1..Len(words) :
            normalize_word(words[i]) \in STOPWORDS \cup {<<>>}

\* C1 as stated: for the scenario text with max_sentences = 2 the summarizer
\* selects sentences 0 and 1 and returns "Cats are mammals.\n\nDogs are
\* mammals too."
C1_SelectsMammals ==
    (Returned /\ text = ScenarioText /\ max_sentences = 2)
        => /\ top_idxs_sorted = <<0, 1>>
           /\ summary = S_cats \o BlankLine \o S_dogs

\* C1 as amended: for the scenario text with max_sentences = 2 the scores are
\* 3/5, 3/6, 2/6 and 4/7, so sentences 0 and 3 are selected and the summary
\* is "Cats are mammals.\n\nWater boils at 100 degrees."
C1_SelectsCatsAndWater ==
    (Returned /\ text = ScenarioText /\ max_sentences = 2)
        => /\ scores = [idx \in 0..3 |->
                          [num |-> <<3, 3, 2, 4>>[idx + 1],
                           den |-> <<5, 6, 6, 7>>[idx + 1]]]
           /\ top_idxs_sorted = <<0, 3>>
           /\ summary = S_cats \o BlankLine \o S_water

C1_Witness ==
    /\ Returned
    /\ text = ScenarioText
    /\ max_sentences = 2
    /\ branch = "scored"
    /\ Len(sentences) = 4

\* C2: a prompt is prepended to the extracted text with a blank line between
\* them, and no sentence of the summary is a sentence of the prompt: each one
\* is a sentence of the extracted document text
C2_PromptNeverSelected ==
    (pc = "responded" /\ extracted_text # <<>> /\ prompt_text # <<>>)
        => /\ text = prompt_text \o BlankLine \o extracted_text
           /\ \A i \in 1..Len(SentencesOf(response.summary)) :
                  SentencesOf(response.summary)[i]
                      \in Range(SentencesOf(extracted_text))

\* C3 as stated: for every text, a text of more than max_sentences sentences
\* gives a summary of at most max_sentences sentences, and a text of
\* max_sentences sentences or fewer gives all of its sentences
C3_BoundRespect ==
    Returned
        => IF Len(sent_tokenize(text)) > max_sentences
           THEN Len(sent_tokenize(summary)) <= max_sentences
           ELSE SentencesOf(summary) = SentencesOf(text)

\* C3 as amended: the same, for every text whose trimmed length is at least
\* 50 characters
C3_BoundRespectLong ==
    (Returned /\ Len(Strip(text)) >= ShortLimit)
        => IF Len(sent_tokenize(text)) > max_sentences
           THEN Len(sent_tokenize(summary)) <= max_sentences
           ELSE SentencesOf(summary) = SentencesOf(text)

C3_Witness ==
    /\ Returned
    /\ Len(Strip(text)) >= ShortLimit
    /\ Len(sent_tokenize(text)) > max_sentences
    /\ Len(sent_tokenize(summary)) = max_sentences
    /\ max_sentences > 1

\* C4: on every path that selects sentences the summary joins sentences of
\* the segmented text at strictly ascending, hence distinct, indices
C4_Subsequence ==
    (Returned /\ branch \in {"few", "fallback", "scored"})
        => /\ sentences = sent_tokenize(text)
           /\ \A p \in 1..Len(top_idxs_sorted) :
                  top_idxs_sorted[p] \in 0..(Len(sentences) - 1)
           /\ \A p \in 1..(Len(top_idxs_sorted) - 1) :
                  top_idxs_sorted[p] < top_idxs_sorted[p + 1]
           /\ summary = Join(BlankLine,
                             [p \in 1..Len(top_idxs_sorted) |->
                                 sentences[top_idxs_sorted[p] + 1]])

\* the ranking put a later sentence before an earlier one
C4_Witness ==
    /\ Returned
    /\ branch = "scored"
    /\ Len(top_idxs) >= 2
    /\ top_idxs[1] > top_idxs[2]

\* the first k sentences of a text, joined by a blank line
FirstSentences(t, k) == Join(BlankLine, Take(SentencesOf(t), k))

\* C5 as stated: a text all of whose tokens normalize to a stopword or to
\* the empty string is summarized to its first max_sentences sentences,
\* joined by a blank line
C5_FallbackFirstK ==
    (Returned /\ AllStopOrEmpty(text))
        => Strip(summary) = FirstSentences(text, max_sentences)

\* C5 as amended: the same, for a text whose trimmed length is at least 50
\* characters
C5_FallbackFirstKLong ==
    (Returned /\ AllStopOrEmpty(text) /\ Len(Strip(text)) >= ShortLimit)
        => /\ Strip(summary) = FirstSentences(text, max_sentences)
           /\ summary = Join(BlankLine, Take(sent_tokenize(text), max_sentences))

\* the fallback dropped a sentence that differs from the ones it kept
C5_Witness ==
    /\ Returned
    /\ AllStopOrEmpty(text)
    /\ branch = "fallback"
    /\ \E i \in 1..Len(sentences) :
           i > max_sentences /\ sentences[i] # sentences[1]

\* what one extraction strategy makes of the bytes
StrategyText(name, doc) ==
    IF name = "pdf" THEN extract_text_from_pdf_bytes(doc)
    ELSE extract_text_from_image_bytes(doc)

\* C6: with a PDF media type and no text from the PDF strategy, the OCR
\* strategy is still run on the same bytes, and what it recognizes is the
\* extracted text
C6_PdfFallsBackToOcr ==
    (/\ pc = "responded"
     /\ calls # <<>>
     /\ mime_type \in PdfTypes
     /\ extract_text_from_pdf_bytes(file_bytes) = <<>>)
        => /\ calls[Len(calls)] = "image"
           /\ extracted_text = extract_text_from_image_bytes(file_bytes)
           /\ extracted_text # <<>> => response.source_text_length = Len(extracted_text)

C6_Witness ==
    /\ pc = "responded"
    /\ mime_type \in PdfTypes
    /\ calls # <<>>
    /\ extract_text_from_pdf_bytes(file_bytes) = <<>>
    /\ extracted_text # <<>>

\* the request decodes to a document that is not empty
Decodable(req) ==
    /\ req.json
    /\ req.contents # <<>>
    /\ \A c \in 1..Len(req.contents) : \A i \in 1..Len(req.contents[c].parts) :
           LET part == req.contents[c].parts[i]
           IN  part.kind = "inlineData" => part.data.b64 # "invalid"
    /\ \E c \in 1..Len(req.contents) : \E i \in 1..Len(req.contents[c].parts) :
           LET part == req.contents[c].parts[i]
           IN  /\ part.kind = "inlineData"
               /\ part.data.b64 = "valid"
               /\ part.data.bytes.size > 0

\* C7: a decoded, non-empty document all of whose attempted strategies give
\* no text ends in the 200 no-text response without the summarizer being
\* called; otherwise the 200 response carries the summary, the length of the
\* extracted text alone and the media type
C7_NoTextIsNotAnError ==
    (pc = "responded" /\ Decodable(request))
        => /\ calls # <<>>
           /\ IF \A i \in 1..Len(calls) : StrategyText(calls[i], file_bytes) = <<>>
              THEN /\ response = [status |-> 200, summary |-> <<>>,
                                  message |-> NoTextMessage]
                   /\ branch = "none"
              ELSE /\ extracted_text # <<>>
                   /\ branch # "none"
                   /\ response =
                        [status |-> 200, summary |-> summary,
                         source_text_length |-> Len(extracted_text),
                         source_mime_type |->
                            IF mime_type = <<>> THEN Unknown ELSE mime_type]

\* three strategies were tried, one failed internally, none gave text, and a
\* prompt was supplied
C7_Witness ==
    /\ pc = "responded"
    /\ Decodable(request)
    /\ Len(calls) = 3
    /\ \A i \in 1..Len(calls) : StrategyText(calls[i], file_bytes) = <<>>
    /\ file_bytes.img.error # "none"
    /\ prompt_text # <<>>
    /\ response.status = 200

\* C8: a text whose trimmed length is below 50 is returned trimmed and
\* otherwise unchanged, however many sentences it has
C8_ShortPassthrough ==
    (Returned /\ Len(Strip(text)) < ShortLimit) => summary = Strip(text)

\* a short text of more sentences than asked for, which trimming changes
\* and which joining its sentences would change
C8_Witness ==
    /\ Returned
    /\ Len(Strip(text)) < ShortLimit
    /\ Len(sent_tokenize(text)) > max_sentences
    /\ summary # text
    /\ summary # Join(BlankLine, sent_tokenize(text))
    /\ summary # Join(BlankLine, SentencesOf(text))

\* C9: on the scored path exactly max_sentences distinct indices are
\* selected, and no sentence left out scores strictly higher than a selected
\* one
C9_TopK ==
    (Returned /\ branch = "scored")
        => /\ DOMAIN scores = 0..(Len(sentences) - 1)
           /\ Len(top_idxs_sorted) = max_sentences
           /\ Cardinality(Selected) = max_sentences
           /\ Selected \subseteq DOMAIN scores
           /\ \A i \in DOMAIN scores \ Selected : \A j \in Selected :
                  ~ScoreLess(scores[j], scores[i])

\* a sentence left out scores strictly lower than every selected one, and
\* the selection is not the first max_sentences sentences
C9_Witness ==
    /\ Returned
    /\ branch = "scored"
    /\ \E i \in DOMAIN scores \ Selected :
           /\ i < max_sentences
           /\ \A j \in Selected : ScoreLess(scores[i], scores[j])

\* C10: on the scored path, of two sentences with equal scores the later one
\* is selected only if the earlier one is
C10_TiesPreferEarlier ==
    (Returned /\ branch = "scored")
        => \A i, j \in DOMAIN scores :
               (i < j /\ ScoreEq(scores[i], scores[j]) /\ j \in Selected)
                   => i \in Selected

\* a tie at the cut: of two sentences with equal scores the earlier one is
\* selected and the later one is not
C10_Witness ==
    /\ Returned
    /\ branch = "scored"
    /\ \E i, j \in DOMAIN scores :
           /\ i < j
           /\ ScoreEq(scores[i], scores[j])
           /\ i \in Selected
           /\ j \notin Selected

====
